---- MODULE Spec2Model ----
(***************************************************************************)
(* Deutsch's algorithm and its Deutsch-Jozsa generalisation as built by    *)
(* deutsch_algorithm.py: circuit construction, the noiseless simulation of *)
(* the built circuit, and the two classification policies.                 *)
(*                                                                         *)
(* A circuit is a record [nq, nc, data]: qubit count, classical bit count  *)
(* and the ordered instruction list.  Amplitudes are kept as integers: the *)
(* Hadamard gate is applied without its 1/sqrt(2) factor, which scales     *)
(* every outcome weight of a circuit by the same positive number and so    *)
(* leaves the set of outcomes with non-zero probability unchanged.  The     *)
(* script's run under a depolarizing noise model is left out: no property  *)
(* below speaks of it.                                                     *)
(***************************************************************************)
EXTENDS Integers, Sequences, FiniteSets, TLC

VARIABLES
    qc,       \* the circuit object of the last call (local `qc`)
    algo,     \* which routine produced `counts`: "none", "deutsch", "dj"
    oracle,   \* oracle_type argument of the last call
    n,        \* number of input (measured) bits of the last call
    counts,   \* histogram returned by the last call, NoCounts if none
    outcome,  \* "none", "returned" or "ValueError"
    simulated,\* TRUE iff the last call reached simulator.run
    label,    \* classification of `counts`, "none" until classified
    seen,     \* per name, the instruction list of its first deutsch_algorithm call
    repeated  \* TRUE iff the last deutsch_algorithm call repeated an earlier name

vars == <<qc, algo, oracle, n, counts, outcome, simulated, label, seen, repeated>>

-----------------------------------------------------------------------------
(* Bounds of the model *)

MaxN == 3          \* largest arity n passed to deutsch_jozsa
MaxCount == 3      \* largest count in a histogram handed to a classifier
MaxKeys == 2       \* most keys in a histogram handed to a classifier

(* Program constant *)
Shots == 1024

-----------------------------------------------------------------------------
(* Inputs *)

\* The four names of deutsch_algorithm's docstring.
OracleTypes == {"constant_0", "constant_1", "balanced_01", "balanced_10"}

\* The three names of the Deutsch-Jozsa section.
DJOracles == {"constant_0", "constant_1", "balanced"}

\* Names a caller may pass to deutsch_algorithm: the recognised ones and two
\* others.
OracleNames == OracleTypes \cup {"balanced", "xor_3"}

\* Names a caller may pass to deutsch_jozsa: the recognised ones and two others.
DJNames == DJOracles \cup {"balanced_01", "xor_3"}

NoCounts == [none |-> TRUE]

-----------------------------------------------------------------------------
(* Circuit instructions *)

XGate(q) == [op |-> "x", q |-> q]
HGate(q) == [op |-> "h", q |-> q]
CXGate(c, t) == [op |-> "cx", c |-> c, t |-> t]
Measure(q, c) == [op |-> "measure", q |-> q, c |-> c]

\* Fault: the circuit object of the previous call is kept instead of a new one.
QuantumCircuitReused(nq, nc) ==
    [nq |-> nq, nc |-> nc, data |-> IF qc.nq = nq THEN qc.data ELSE <<>>]

\* QuantumCircuit(nq, nc): a new circuit with no instruction.
QuantumCircuit(nq, nc) == [nq |-> nq, nc |-> nc, data |-> <<>>]

\* qc.x(..), qc.h(..), qc.cx(..), qc.measure(..): append to the circuit.
Emit(circ, gates) == [circ EXCEPT !.data = circ.data \o gates]

-----------------------------------------------------------------------------
(* Noiseless simulation of a circuit *)

Pow2(k) == 2 ^ k

Bit(i, q) == (i \div Pow2(q)) % 2

FlipBit(i, q) == IF Bit(i, q) = 0 THEN i + Pow2(q) ELSE i - Pow2(q)

\* The basis state of index i on nq qubits: qubit q is in state Bit(i, q).
BasisState(i, nq) == [k \in 0..(Pow2(nq) - 1) |-> IF k = i THEN 1 ELSE 0]

ApplyX(psi, q) == [i \in DOMAIN psi |-> psi[FlipBit(i, q)]]

ApplyH(psi, q) ==
    [i \in DOMAIN psi |->
        IF Bit(i, q) = 0 THEN psi[i] + psi[FlipBit(i, q)]
                         ELSE psi[FlipBit(i, q)] - psi[i]]

ApplyCX(psi, c, t) ==
    [i \in DOMAIN psi |-> IF Bit(i, c) = 1 THEN psi[FlipBit(i, t)] ELSE psi[i]]

ApplyGate(psi, g) ==
    CASE g.op = "x" -> ApplyX(psi, g.q)
      [] g.op = "h" -> ApplyH(psi, g.q)
      [] g.op = "cx" -> ApplyCX(psi, g.c, g.t)
      [] g.op = "measure" -> psi

RECURSIVE RunGates(_, _)
RunGates(gates, psi) ==
    IF gates = <<>> THEN psi
    ELSE RunGates(Tail(gates), ApplyGate(psi, Head(gates)))

\* Final state of the circuit started in |0...0>.
FinalState(circ) == RunGates(circ.data, BasisState(0, circ.nq))

RECURSIVE SumSq(_, _)
SumSq(psi, S) ==
    IF S = {} THEN 0
    ELSE LET i == CHOOSE j \in S : TRUE
         IN  psi[i] * psi[i] + SumSq(psi, S \ {i})

\* The measure instructions of a circuit.
Measures(circ) ==
    {circ.data[k] : k \in {j \in 1..Len(circ.data) : circ.data[j].op = "measure"}}

\* Unnormalised probability that the classical register reads value v when
\* the instructions ms measure the state psi.
Weight(psi, ms, v) ==
    SumSq(psi, {i \in DOMAIN psi : \A m \in ms : Bit(i, m.q) = Bit(v, m.c)})

\* Key of a register value in the histogram: clbit nc-1 first, clbit 0 last.
RECURSIVE BitStr(_, _)
BitStr(v, len) ==
    IF len = 0 THEN ""
    ELSE BitStr(v \div 2, len - 1) \o (IF v % 2 = 1 THEN "1" ELSE "0")

\* Every way to spread `total` shots over the keys S, each key that appears
\* getting at least one shot.
RECURSIVE Spread(_, _)
Spread(S, total) ==
    IF S = {} \/ total = 0 THEN {}
    ELSE LET k == CHOOSE j \in S : TRUE
             rest == S \ {k}
         IN  {k :> total} \cup Spread(rest, total) \cup
             UNION {{h @@ (k :> c) : h \in Spread(rest, total - c)} :
                      c \in 1..(IF rest = {} THEN 0 ELSE total - 1)}

\* simulator.run(qc, shots=1024).result().get_counts(qc): the histograms a
\* run can return, over the outcomes of non-zero probability.
GetCounts(circ) ==
    LET psi == FinalState(circ)
        ms == Measures(circ)
        support == {v \in 0..(Pow2(circ.nc) - 1) : Weight(psi, ms, v) > 0}
    IN  Spread({BitStr(v, circ.nc) : v \in support}, Shots)

-----------------------------------------------------------------------------
(* deutsch_algorithm *)

\* Fault: the output qubit is not set to |1> before the Hadamards.
DeutschPrepNoX == <<HGate(0), HGate(1)>>

\* qc.x(1); qc.h(0); qc.h(1)
DeutschPrep == <<XGate(1), HGate(0), HGate(1)>>

\* Fault: the balanced_10 branch drops its last X.
OracleBranchShort(oracle_type) ==
    IF oracle_type = "constant_0" THEN [raised |-> FALSE, gates |-> <<>>]
    ELSE IF oracle_type = "constant_1" THEN
        [raised |-> FALSE, gates |-> <<XGate(1)>>]
    ELSE IF oracle_type = "balanced_01" THEN
        [raised |-> FALSE, gates |-> <<CXGate(0, 1)>>]
    ELSE IF oracle_type = "balanced_10" THEN
        [raised |-> FALSE, gates |-> <<XGate(1), CXGate(0, 1)>>]
    ELSE [raised |-> TRUE, gates |-> <<>>]

\* Fault: the else branch falls through instead of raising.
OracleBranchNoRaise(oracle_type) ==
    IF oracle_type = "constant_0" THEN [raised |-> FALSE, gates |-> <<>>]
    ELSE IF oracle_type = "constant_1" THEN
        [raised |-> FALSE, gates |-> <<XGate(1)>>]
    ELSE IF oracle_type = "balanced_01" THEN
        [raised |-> FALSE, gates |-> <<CXGate(0, 1)>>]
    ELSE IF oracle_type = "balanced_10" THEN
        [raised |-> FALSE, gates |-> <<XGate(1), CXGate(0, 1), XGate(1)>>]
    ELSE [raised |-> FALSE, gates |-> <<>>]

\* The if/elif chain over oracle_type: the gates the taken branch appends,
\* or the raise of the else branch.
OracleBranch(oracle_type) ==
    IF oracle_type = "constant_0" THEN [raised |-> FALSE, gates |-> <<>>]
    ELSE IF oracle_type = "constant_1" THEN
        [raised |-> FALSE, gates |-> <<XGate(1)>>]
    ELSE IF oracle_type = "balanced_01" THEN
        [raised |-> FALSE, gates |-> <<CXGate(0, 1)>>]
    ELSE IF oracle_type = "balanced_10" THEN
        [raised |-> FALSE, gates |-> <<XGate(1), CXGate(0, 1), XGate(1)>>]
    ELSE [raised |-> TRUE, gates |-> <<>>]

\* qc.h(0); qc.measure(0, 0)
DeutschPost == <<HGate(0), Measure(0, 0)>>

\* One call deutsch_algorithm(oracle_type).  On the raise the circuit holds
\* the preparation gates only and nothing is returned.
DeutschAlgorithm(oracle_type) ==
    LET fresh == Emit(QuantumCircuit(2, 1), DeutschPrep)
        branch == OracleBranch(oracle_type)
        built == Emit(Emit(fresh, branch.gates), DeutschPost)
    IN  /\ algo' = "deutsch"
        /\ oracle' = oracle_type
        /\ n' = 1
        /\ label' = "none"
        /\ IF branch.raised
           THEN /\ qc' = fresh
                /\ outcome' = "ValueError"
                /\ simulated' = FALSE
                /\ counts' = NoCounts
           ELSE /\ qc' = built
                /\ outcome' = "returned"
                /\ simulated' = TRUE
                /\ counts' \in GetCounts(built)
        /\ repeated' = (oracle_type \in DOMAIN seen)
        /\ seen' = IF oracle_type \in DOMAIN seen THEN seen
                   ELSE seen @@ (oracle_type :> qc'.data)

-----------------------------------------------------------------------------
(* interpret_result *)

\* counts.get(key, 0)
Get(hist, key) == IF key \in DOMAIN hist THEN hist[key] ELSE 0

\* Fault: the comparison is >= instead of >.
interpret_result_ge(hist) ==
    IF "0" \in DOMAIN hist /\ hist["0"] >= Get(hist, "1")
    THEN "constant" ELSE "balanced"

\* '0' in counts and counts['0'] > counts.get('1', 0)
interpret_result(hist) ==
    IF "0" \in DOMAIN hist /\ hist["0"] > Get(hist, "1")
    THEN "constant" ELSE "balanced"

\* result = interpret_result(counts) on the histogram of deutsch_algorithm.
InterpretResult ==
    /\ algo = "deutsch"
    /\ counts # NoCounts
    /\ label = "none"
    /\ label' = interpret_result(counts)
    /\ UNCHANGED <<qc, algo, oracle, n, counts, outcome, simulated, seen, repeated>>

-----------------------------------------------------------------------------
(* Deutsch-Jozsa section *)

\* Fault: the balanced branch controls on the last input bit.
deutsch_jozsa_oracle_last(oracle_type, nbits) ==
    IF oracle_type = "constant_0" THEN <<>>
    ELSE IF oracle_type = "constant_1" THEN <<XGate(nbits)>>
    ELSE IF oracle_type = "balanced" THEN <<CXGate(nbits - 1, nbits)>>
    ELSE <<>>

\* The gates deutsch_jozsa_oracle(qc, oracle_type, n) appends.  The chain has
\* no else branch: any other name appends nothing and returns normally.
deutsch_jozsa_oracle(oracle_type, nbits) ==
    IF oracle_type = "constant_0" THEN <<>>
    ELSE IF oracle_type = "constant_1" THEN <<XGate(nbits)>>
    ELSE IF oracle_type = "balanced" THEN <<CXGate(0, nbits)>>
    ELSE <<>>

\* for i in range(k): qc.h(i)
HRange(k) == [i \in 1..k |-> HGate(i - 1)]

\* qc.measure(list(range(k)), list(range(k)))
MeasureRange(k) == [i \in 1..k |-> Measure(i - 1, i - 1)]

\* The circuit deutsch_jozsa(n, oracle_type) builds.
deutsch_jozsa_circuit(nbits, oracle_type) ==
    Emit(Emit(Emit(Emit(Emit(QuantumCircuit(nbits + 1, nbits),
        <<XGate(nbits)>>),
        HRange(nbits + 1)),
        deutsch_jozsa_oracle(oracle_type, nbits)),
        HRange(nbits)),
        MeasureRange(nbits))

\* One call deutsch_jozsa(n, oracle_type): build, simulate, return counts.
DeutschJozsa(nbits, oracle_type) ==
    LET built == deutsch_jozsa_circuit(nbits, oracle_type)
    IN  /\ algo' = "dj"
        /\ oracle' = oracle_type
        /\ n' = nbits
        /\ label' = "none"
        /\ qc' = built
        /\ outcome' = "returned"
        /\ simulated' = TRUE
        /\ counts' \in GetCounts(built)
        /\ UNCHANGED <<seen, repeated>>

\* '0' * k
RECURSIVE Zeros(_)
Zeros(k) == IF k = 0 THEN "" ELSE "0" \o Zeros(k - 1)

\* Fault: a majority on '0'*n is taken for constant.
is_constant_majority(hist, nbits) ==
    /\ Zeros(nbits) \in DOMAIN hist
    /\ \A key \in DOMAIN hist : hist[Zeros(nbits)] >= hist[key]

\* Fault: a histogram without keys is not taken for constant.
is_constant_nonempty(hist, nbits) ==
    /\ DOMAIN hist # {}
    /\ \A key \in DOMAIN hist : key = Zeros(nbits)

\* all(key == '0'*n for key in counts.keys()); the script runs it with n = 3,
\* the arity it passed to deutsch_jozsa.
is_constant(hist, nbits) == \A key \in DOMAIN hist : key = Zeros(nbits)

\* 'constant' if is_constant else 'balanced', on the histogram of deutsch_jozsa.
DJClassify ==
    /\ algo = "dj"
    /\ counts # NoCounts
    /\ label = "none"
    /\ label' = IF is_constant(counts, n) THEN "constant" ELSE "balanced"
    /\ UNCHANGED <<qc, algo, oracle, n, counts, outcome, simulated, seen, repeated>>

-----------------------------------------------------------------------------
(* The script as a state machine: calls in any order, with any name *)

NoCircuit == [nq |-> 0, nc |-> 0, data |-> <<>>]

Init ==
    /\ qc = NoCircuit
    /\ algo = "none"
    /\ oracle = ""
    /\ n = 0
    /\ counts = NoCounts
    /\ outcome = "none"
    /\ simulated = FALSE
    /\ label = "none"
    /\ seen = <<>>
    /\ repeated = FALSE

Next ==
    \/ \E name \in OracleNames : DeutschAlgorithm(name)
    \/ InterpretResult
    \/ \E nbits \in 1..MaxN : \E name \in DJNames : DeutschJozsa(nbits, name)
    \/ DJClassify

Spec == Init /\ [][Next]_vars

-----------------------------------------------------------------------------
(* The classifiers as pure functions of a histogram *)

BitStrings(len) == {BitStr(v, len) : v \in 0..(Pow2(len) - 1)}

\* Histograms over length-len bitstrings: at most MaxKeys keys, counts up to
\* MaxCount (a key may be present with count 0).
Histograms(len) ==
    UNION {[K -> 0..MaxCount] :
             K \in {S \in SUBSET BitStrings(len) : Cardinality(S) <= MaxKeys}}

InitClassify ==
    /\ qc = NoCircuit
    /\ oracle = ""
    /\ outcome = "none"
    /\ simulated = FALSE
    /\ label = "none"
    /\ seen = <<>>
    /\ repeated = FALSE
    /\ algo \in {"deutsch", "dj"}
    /\ n \in 1..MaxN
    /\ algo = "deutsch" => n = 1
    /\ counts \in Histograms(n)

NextClassify == InterpretResult \/ DJClassify

SpecClassify == InitClassify /\ [][NextClassify]_vars

-----------------------------------------------------------------------------
(* Properties *)

\* The gate operations of the oracle tables, as circuit instructions.
Flip(t) == [op |-> "x", q |-> t]
ControlledFlip(c, t) == [op |-> "cx", c |-> c, t |-> t]
Hadamard(t) == [op |-> "h", q |-> t]

Xor(a, b) == (a + b) % 2

\* The oracle section of the last circuit: what lies between the preparation
\* gates and the closing Hadamards.
DeutschOracleSection == SubSeq(qc.data, 4, Len(qc.data) - 2)
DJOracleSection == SubSeq(qc.data, n + 3, Len(qc.data) - 2 * n)

\* The basis states a gate sequence can take the classical basis state of
\* index i to, on an nq-bit register.
BasisImages(gates, i, nq) ==
    {j \in 0..(2 ^ nq - 1) : RunGates(gates, BasisState(i, nq)) = BasisState(j, nq)}

\* C1: a returned deutsch_algorithm run puts all 1024 shots on '0' for the
\* constant_* oracles and on '1' for the balanced_* oracles, and
\* interpret_result of that histogram is 'constant', respectively 'balanced'.
C1_NoiselessOutcome ==
    (algo = "deutsch" /\ outcome = "returned") =>
        /\ oracle \in {"constant_0", "constant_1"} =>
              /\ counts = ("0" :> Shots)
              /\ label \in {"none", "constant"}
        /\ oracle \in {"balanced_01", "balanced_10"} =>
              /\ counts = ("1" :> Shots)
              /\ label \in {"none", "balanced"}

C1_Witness ==
    /\ algo = "deutsch"
    /\ oracle = "balanced_10"
    /\ counts = ("1" :> Shots)
    /\ label = "balanced"

C3_Table(name) ==
    CASE name = "constant_0" -> <<>>
      [] name = "constant_1" -> <<Flip(1)>>
      [] name = "balanced_01" -> <<ControlledFlip(0, 1)>>
      [] name = "balanced_10" -> <<Flip(1), ControlledFlip(0, 1), Flip(1)>>

\* C3: the circuit of each of the four names is the preparation gates, then
\* exactly the table's gate sequence, then the Hadamard on bit 0 and the
\* measurement.
C3_OracleSequence ==
    (algo = "deutsch" /\ oracle \in OracleTypes) =>
        qc.data = <<Flip(1), Hadamard(0), Hadamard(1)>> \o C3_Table(oracle)
                    \o <<Hadamard(0), [op |-> "measure", q |-> 0, c |-> 0]>>

C3_Witness ==
    /\ algo = "deutsch"
    /\ oracle = "balanced_10"
    /\ Len(qc.data) = 8

C4_F(name, x) ==
    CASE name = "constant_0" -> 0
      [] name = "constant_1" -> 1
      [] name = "balanced_01" -> x
      [] name = "balanced_10" -> 1 - x

\* C4: on every classical basis state (x, y) the oracle section of each of
\* the four names yields (x, y XOR f(x)) with f(0),f(1) = 0,0 for constant_0,
\* 1,1 for constant_1, 0,1 for balanced_01 and 1,0 for balanced_10.
C4_ReversibleF ==
    (algo = "deutsch" /\ oracle \in OracleTypes) =>
        \A x \in {0, 1} : \A y \in {0, 1} :
            RunGates(DeutschOracleSection, BasisState(x + 2 * y, 2))
                = BasisState(x + 2 * Xor(y, C4_F(oracle, x)), 2)

\* C5: a deutsch_algorithm call with a name outside the four raises
\* ValueError: the circuit holds the preparation gates only, the simulator
\* is not run and no histogram is returned.
C5_InvalidOracle ==
    (algo = "deutsch" /\ oracle \notin OracleTypes) =>
        /\ outcome = "ValueError"
        /\ qc.data = <<Flip(1), Hadamard(0), Hadamard(1)>>
        /\ ~simulated
        /\ counts = NoCounts
        /\ label = "none"

C5_Witness ==
    /\ algo = "deutsch"
    /\ oracle = "xor_3"
    /\ outcome = "ValueError"

\* C6: a deutsch_jozsa call with a name outside {constant_0, constant_1,
\* balanced} is rejected: it raises and returns no histogram.
C6_DJInvalidRejected ==
    (algo = "dj" /\ oracle \notin DJOracles) =>
        /\ outcome = "ValueError"
        /\ ~simulated
        /\ counts = NoCounts

C9_Table(name, nbits) ==
    CASE name = "constant_0" -> <<>>
      [] name = "constant_1" -> <<Flip(nbits)>>
      [] name = "balanced" -> <<ControlledFlip(0, nbits)>>

C9_F(name, x) ==
    CASE name = "constant_0" -> 0
      [] name = "constant_1" -> 1
      [] name = "balanced" -> x % 2

\* C9: the oracle section of deutsch_jozsa is empty for constant_0,
\* [Flip(n)] for constant_1 and [ControlledFlip(0, n)] for balanced; it takes
\* every basis state (x, y) to (x, y XOR f(x)) with f = 0, f = 1 and
\* f(x) = x[0], and the balanced f is 1 on exactly half of the 2^n inputs.
C9_DJOracle ==
    (algo = "dj" /\ oracle \in DJOracles) =>
        /\ DJOracleSection = C9_Table(oracle, n)
        /\ \A x \in 0..(2 ^ n - 1) : \A y \in {0, 1} :
              BasisImages(DJOracleSection, x + (2 ^ n) * y, n + 1)
                  = {x + (2 ^ n) * Xor(y, C9_F(oracle, x))}
        /\ oracle = "balanced" =>
              2 * Cardinality({x \in 0..(2 ^ n - 1) :
                     BasisImages(DJOracleSection, x, n + 1) = {x + 2 ^ n}}) = 2 ^ n

C9_Witness ==
    /\ algo = "dj"
    /\ oracle = "balanced"
    /\ n = MaxN
    /\ outcome = "returned"

\* C10: every deutsch_algorithm call starts from an empty circuit, and a call
\* that repeats a name emits the instruction list the first call with that
\* name emitted, whatever calls came in between and whether or not it raised.
C10_Stateless ==
    algo = "deutsch" =>
        /\ oracle \in DOMAIN seen
        /\ qc.data = seen[oracle]
        /\ SubSeq(qc.data, 1, 3) = <<Flip(1), Hadamard(0), Hadamard(1)>>
        /\ Cardinality({k \in 1..Len(qc.data) : qc.data[k].op = "measure"}) <= 1
        /\ Len(qc.data) <= 8

C10_Witness ==
    /\ algo = "deutsch"
    /\ repeated
    /\ oracle = "balanced_10"
    /\ {"xor_3", "constant_1", "balanced_01"} \subseteq DOMAIN seen

C2_Count(key) == IF key \in DOMAIN counts THEN counts[key] ELSE 0

\* C2: interpret_result returns 'constant' exactly when '0' is a key and its
\* count is strictly greater than the count of '1' (0 when absent), and
\* 'balanced' otherwise: when '0' is absent, on the empty histogram and on
\* every tie, {'0': 0} included.
C2_N1Policy ==
    (algo = "deutsch" /\ label # "none") =>
        /\ label \in {"constant", "balanced"}
        /\ label = "constant" <=>
              ("0" \in DOMAIN counts /\ C2_Count("0") > C2_Count("1"))
        /\ "0" \notin DOMAIN counts => label = "balanced"
        /\ C2_Count("0") = C2_Count("1") => label = "balanced"

C2_Witness ==
    /\ algo = "deutsch"
    /\ label = "balanced"
    /\ DOMAIN counts = {"0", "1"}
    /\ counts["0"] = counts["1"]
    /\ counts["0"] > 0

====
